---- MODULE Spec2Model ----
(***************************************************************************)
(* A model of src/QueryBuilder.js: the fluent builder of ServiceNOW         *)
(* encoded queries.  The builder's state is the token list `query` and the  *)
(* `currentField`; every public method is one action.  The result of a call *)
(* (the builder itself, the built string, or the exception thrown) is       *)
(* recorded in `outcome`, and the method that was called in `lastCall`.     *)
(*                                                                         *)
(* JavaScript values are records  [t, s, n, a, off]:                        *)
(*   t = "string"     s the text                                           *)
(*   t = "number"     n the (integer) value                                *)
(*   t = "array"      a the elements (integers)                            *)
(*   t = "object" | "boolean" | "null" | "undefined"   no payload          *)
(*   t = "date"       n the instant, seconds since the Unix epoch          *)
(*   t = "moment"     n the instant, off the UTC offset (minutes) in which  *)
(*                    the moment object renders itself                     *)
(* Strings are TLA+ strings; \o is the concatenation.                       *)
(*                                                                         *)
(* Field names are strings, numbers and array elements are integers, and    *)
(* instants are whole seconds.  The zone of the process is a fixed offset   *)
(* `tz`, chosen at the start and never changed: daylight-saving shifts of   *)
(* the local zone are left out.  moment is the library of that name; its    *)
(* format() renders a moment in the offset the moment carries.             *)
(***************************************************************************)
EXTENDS Integers, Sequences, FiniteSets, TLC

VARIABLES query, currentField, fieldCalled, tz, lastCall, outcome

vars == <<query, currentField, fieldCalled, tz, lastCall, outcome>>

(***************************************************************************)
(* Bounds of the model.                                                    *)
(***************************************************************************)
MaxTokens == 1

MaxChain == 4

(***************************************************************************)
(* JavaScript values.                                                      *)
(***************************************************************************)
JsVal(t, s, n, a, off) == [t |-> t, s |-> s, n |-> n, a |-> a, off |-> off]

Str(s) == JsVal("string", s, 0, <<>>, 0)

Num(n) == JsVal("number", "", n, <<>>, 0)

Arr(a) == JsVal("array", "", 0, a, 0)

Obj == JsVal("object", "", 0, <<>>, 0)

Bool == JsVal("boolean", "", 0, <<>>, 0)

Null == JsVal("null", "", 0, <<>>, 0)

Undefined == JsVal("undefined", "", 0, <<>>, 0)

DateVal(inst) == JsVal("date", "", inst, <<>>, 0)

MomentVal(inst, off) == JsVal("moment", "", inst, <<>>, off)

\* typeof v
TypeOf(v) ==
    CASE v.t = "string" -> "string"
      [] v.t = "number" -> "number"
      [] v.t = "boolean" -> "boolean"
      [] v.t = "undefined" -> "undefined"
      [] OTHER -> "object"

\* Array.isArray(v)
IsArray(v) == v.t = "array"

\* v instanceof Date
IsDate(v) == v.t = "date"

\* v instanceof moment
IsMoment(v) == v.t = "moment"

\* a slip: the field tested against undefined only, so '' counts as a field
TruthyUnlessUndefined(name) == name # "undefined"

\* the truthiness of a field name: !this.currentField is true of ''
Truthy(name) == name # ""

(***************************************************************************)
(* Number and array rendering, as string concatenation does it.            *)
(***************************************************************************)
Digit(d) == <<"0", "1", "2", "3", "4", "5", "6", "7", "8", "9">>[d + 1]

RECURSIVE NatToString(_)
NatToString(n) ==
    IF n < 10 THEN Digit(n) ELSE NatToString(n \div 10) \o Digit(n % 10)

NumberToString(n) == IF n < 0 THEN "-" \o NatToString(-n) ELSE NatToString(n)

\* Array.prototype.join(','): the elements, a comma between neighbours
RECURSIVE Join(_)
Join(a) ==
    IF Len(a) = 0 THEN ""
    ELSE IF Len(a) = 1 THEN NumberToString(a[1])
    ELSE NumberToString(a[1]) \o "," \o Join(Tail(a))

\* the string a value contributes to  field + operator + operand  or `${v}`
ToStr(v) ==
    CASE v.t = "string" -> v.s
      [] v.t = "number" -> NumberToString(v.n)
      [] v.t = "array" -> Join(v.a)
      [] OTHER -> "[object]"

(***************************************************************************)
(* Dates.  A wall clock is a number of seconds counted from 1970-01-01      *)
(* 00:00:00 of some zone; an instant is the wall clock of UTC.             *)
(***************************************************************************)
Pad2(n) == IF n < 10 THEN "0" \o Digit(n) ELSE NatToString(n)

Pad4(n) ==
    IF n < 10 THEN "000" \o NatToString(n)
    ELSE IF n < 100 THEN "00" \o NatToString(n)
    ELSE IF n < 1000 THEN "0" \o NatToString(n)
    ELSE NatToString(n)

\* the proleptic Gregorian date <<year, month, day>> of a day number
CivilFromDays(days) ==
    LET z == days + 719468
        era == z \div 146097
        doe == z - era * 146097
        yoe == (doe - doe \div 1460 + doe \div 36524 - doe \div 146096) \div 365
        doy == doe - (365 * yoe + yoe \div 4 - yoe \div 100)
        mp == (5 * doy + 2) \div 153
        d == doy - (153 * mp + 2) \div 5 + 1
        m == IF mp < 10 THEN mp + 3 ELSE mp - 9
        y == yoe + era * 400 + (IF m <= 2 THEN 1 ELSE 0)
    IN  <<y, m, d>>

\* moment's 'hh' token: the hour of the 12-hour clock, 01..12
Hour12(h) == IF h % 12 = 0 THEN 12 ELSE h % 12

\* 'YYYY-MM-DD hh:mm:ss' of a date <<year, month, day>> and a second of the day
FormatFields(ymd, sod) ==
    Pad4(ymd[1]) \o "-" \o Pad2(ymd[2]) \o "-" \o Pad2(ymd[3]) \o " "
    \o Pad2(Hour12(sod \div 3600)) \o ":" \o Pad2((sod % 3600) \div 60)
    \o ":" \o Pad2(sod % 60)

\* moment#format('YYYY-MM-DD hh:mm:ss') of a wall clock
FormatWallClock(w) == FormatFields(CivilFromDays(w \div 86400), w % 86400)

\* momentDate.format('YYYY-MM-DD hh:mm:ss'): a moment renders the wall clock
\* of its own offset
_formatDateTime(momentDate) == FormatWallClock(momentDate.n + momentDate.off * 60)

\* dateTime.toUTCString().substr(0, 25): the UTC wall clock, the zone cut off
ToUTCStringCut(dateTime) == dateTime.n

\* new Date(text) of a text that names no zone: read in the local zone
ParseLocal(w, zone) == DateVal(w - zone * 60)

\* moment(date): a moment in local mode
MomentOf(date, zone) == MomentVal(date.n, zone)

_getDateTimeInUTC(dateTime, zone) ==
    IF IsMoment(dateTime)
    THEN _formatDateTime(dateTime)
    ELSE _formatDateTime(MomentOf(ParseLocal(ToUTCStringCut(dateTime), zone), zone))

(***************************************************************************)
(* The inputs the calls are drawn from.                                    *)
(***************************************************************************)
\* 2020-02-29 13:05:09 UTC
Leap == 1582934400 + 47109

FieldNames == {"", "state"}

Operands ==
    { Str("x"), Num(1), Arr(<<1, 2, 3>>), Obj, Bool, Null, Undefined,
      DateVal(Leap), MomentVal(Leap, 0), MomentVal(Leap, 60) }

\* the operands between() is called with, two at a time
RangeOperands == {Str("x"), Num(1), Undefined, DateVal(Leap), MomentVal(Leap, 60)}

\* the offsets (minutes east of UTC) of the zone the process may run in
TimeZones == {-300, 60}

ChainFields == {"priority", "state"}

ChainOperands == {Num(1), Num(6)}

(***************************************************************************)
(* The outcome of a call.                                                  *)
(***************************************************************************)
Outcome(kind, value) == [kind |-> kind, value |-> value]

\* return this
ReturnThis == outcome' = Outcome("self", "")

\* throw new Query...Exception(...): nothing but the exception leaves the call
Throw(kind) ==
    /\ outcome' = Outcome(kind, "")
    /\ UNCHANGED <<query, currentField>>

\* the method entered; no method but field() touches the rest
Called(method) ==
    /\ lastCall' = method
    /\ UNCHANGED <<fieldCalled, tz>>

\* this.query.push(token)
Push(token) == query' = Append(query, token)

\* a slip: this.query.join(), whose separator is the comma
RECURSIVE JoinTokensComma(_)
JoinTokensComma(tokens) ==
    IF Len(tokens) = 0 THEN ""
    ELSE IF Len(tokens) = 1 THEN Head(tokens)
    ELSE Head(tokens) \o "," \o JoinTokensComma(Tail(tokens))

\* this.query.join('')
RECURSIVE JoinTokens(_)
JoinTokens(tokens) ==
    IF Len(tokens) = 0 THEN "" ELSE Head(tokens) \o JoinTokens(Tail(tokens))

(***************************************************************************)
(* The constructor.                                                        *)
(***************************************************************************)
InitIn(zones) ==
    /\ query = <<>>
    /\ currentField = ""
    /\ fieldCalled = FALSE
    /\ tz \in zones
    /\ lastCall = "constructor"
    /\ outcome = Outcome("new", "")

Init == InitIn(TimeZones)

(***************************************************************************)
(* The private helpers.                                                    *)
(***************************************************************************)
\* a slip: an operator that follows an operator takes its place
_addLogicalOperatorReplacing(operator) ==
    /\ IF Len(query) > 0 /\ query[Len(query)] \in {"^", "^OR", "^NQ"}
       THEN query' = [query EXCEPT ![Len(query)] = operator]
       ELSE Push(operator)
    /\ UNCHANGED currentField
    /\ ReturnThis

_addLogicalOperator(operator) ==
    /\ Push(operator)
    /\ UNCHANGED currentField
    /\ ReturnThis

\* a slip: the operand's type tested before the field
_addConditionTypeFirst(operator, operand, types) ==
    IF TypeOf(operand) \notin types
    THEN Throw("TypeMismatch")
    ELSE IF ~Truthy(currentField)
    THEN Throw("MissingField")
    ELSE /\ Push(currentField \o operator \o ToStr(operand))
         /\ UNCHANGED currentField
         /\ ReturnThis

\* a slip: the token pushed before the operand's type is tested
_addConditionPushFirst(operator, operand, types) ==
    IF ~Truthy(currentField)
    THEN Throw("MissingField")
    ELSE /\ Push(currentField \o operator \o ToStr(operand))
         /\ UNCHANGED currentField
         /\ IF TypeOf(operand) \notin types
            THEN outcome' = Outcome("TypeMismatch", "")
            ELSE ReturnThis

_addCondition(operator, operand, types) ==
    IF ~Truthy(currentField)
    THEN Throw("MissingField")
    ELSE IF TypeOf(operand) \notin types
    THEN Throw("TypeMismatch")
    ELSE /\ Push(currentField \o operator \o ToStr(operand))
         /\ UNCHANGED currentField
         /\ ReturnThis

_addComparisonCondition(valueToCompare, operator) ==
    IF IsDate(valueToCompare) \/ IsMoment(valueToCompare)
    THEN _addCondition(operator, Str(_getDateTimeInUTC(valueToCompare, tz)),
                       {"number", "string"})
    ELSE IF ~(TypeOf(valueToCompare) = "number" \/ TypeOf(valueToCompare) = "string")
    THEN Throw("TypeMismatch")
    ELSE _addCondition(operator, valueToCompare, {"number", "string"})

(***************************************************************************)
(* The public methods.                                                     *)
(***************************************************************************)
field(fieldName) ==
    /\ lastCall' = "field"
    /\ currentField' = fieldName
    /\ fieldCalled' = TRUE
    /\ ReturnThis
    /\ UNCHANGED <<query, tz>>

orderDescending ==
    /\ Called("orderDescending")
    /\ Push("ORDERBYDESC" \o currentField)
    /\ UNCHANGED currentField
    /\ ReturnThis

orderAscending ==
    /\ Called("orderAscending")
    /\ Push("ORDERBY" \o currentField)
    /\ UNCHANGED currentField
    /\ ReturnThis

startsWith(startsWithStr) ==
    /\ Called("startsWith")
    /\ _addCondition("STARTSWITH", startsWithStr, {"string"})

endsWith(endsWithStr) ==
    /\ Called("endsWith")
    /\ _addCondition("ENDSWITH", endsWithStr, {"string"})

contains(containesStr) ==
    /\ Called("contains")
    /\ _addCondition("LIKE", containesStr, {"string"})

doesNotContain(notContainesStr) ==
    /\ Called("doesNotContain")
    /\ _addCondition("NOTLIKE", notContainesStr, {"string"})

isEmpty ==
    /\ Called("isEmpty")
    /\ _addCondition("ISEMPTY", Str(""), {"string", "number"})

isNotEmpty ==
    /\ Called("isNotEmpty")
    /\ _addCondition("ISNOTEMPTY", Str(""), {"string", "number"})

\* a slip: the array branch missing, an array taken for any other object
equalsScalarOnly(data) ==
    /\ Called("equals")
    /\ IF TypeOf(data) = "string" \/ TypeOf(data) = "number"
       THEN _addCondition("=", data, {"string", "number"})
       ELSE Throw("TypeMismatch")

equals(data) ==
    /\ Called("equals")
    /\ IF TypeOf(data) = "string" \/ TypeOf(data) = "number"
       THEN _addCondition("=", data, {"string", "number"})
       ELSE IF IsArray(data)
       THEN _addCondition("IN", data, {"object"})
       ELSE Throw("TypeMismatch")

notEquals(data) ==
    /\ Called("notEquals")
    /\ IF TypeOf(data) = "string" \/ TypeOf(data) = "number"
       THEN _addCondition("!=", data, {"string", "number"})
       ELSE IF IsArray(data)
       THEN _addCondition("NOT IN", data, {"object"})
       ELSE Throw("TypeMismatch")

greaterThan(greaterThanValue) ==
    /\ Called("greaterThan")
    /\ _addComparisonCondition(greaterThanValue, ">")

greaterThanOrIs(greaterThanOrIsValue) ==
    /\ Called("greaterThanOrIs")
    /\ _addComparisonCondition(greaterThanOrIsValue, ">=")

lessThan(lessThanValue) ==
    /\ Called("lessThan")
    /\ _addComparisonCondition(lessThanValue, "<")

lessThanOrIs(lessThanOrIsValue) ==
    /\ Called("lessThanOrIs")
    /\ _addComparisonCondition(lessThanOrIsValue, "<=")

between(startValue, endValue) ==
    /\ Called("between")
    /\ IF \/ TypeOf(startValue) = "number" /\ TypeOf(endValue) = "number"
          \/ TypeOf(startValue) = "string" /\ TypeOf(endValue) = "string"
       THEN _addCondition("BETWEEN",
                          Str(ToStr(startValue) \o "@" \o ToStr(endValue)),
                          {"string"})
       ELSE IF /\ IsDate(startValue) \/ IsMoment(startValue)
               /\ IsDate(endValue) \/ IsMoment(endValue)
       THEN _addCondition("BETWEEN",
                          Str(_getDateTimeInUTC(startValue, tz) \o "@"
                              \o _getDateTimeInUTC(endValue, tz)),
                          {"string"})
       ELSE Throw("TypeMismatch")

isAnything ==
    /\ Called("isAnything")
    /\ _addCondition("ANYTHING", Str(""), {"string", "number"})

isOneOf(data) ==
    /\ Called("isOneOf")
    /\ IF IsArray(data)
       THEN _addCondition("IN", Str(Join(data.a)), {"string"})
       ELSE Throw("TypeMismatch")

isEmptyString ==
    /\ Called("isEmptyString")
    /\ _addCondition("EMPTYSTRING", Str(""), {"string"})

and ==
    /\ Called("and")
    /\ _addLogicalOperator("^")

or ==
    /\ Called("or")
    /\ _addLogicalOperator("^OR")

NQ ==
    /\ Called("NQ")
    /\ _addLogicalOperator("^NQ")

\* a slip: the test for an empty query missing
buildUnchecked ==
    /\ Called("build")
    /\ outcome' = Outcome("string", JoinTokens(query))
    /\ UNCHANGED <<query, currentField>>

\* a slip: the builder reset once the query is built
buildAndReset ==
    /\ Called("build")
    /\ IF Len(query) = 0
       THEN Throw("EmptyQuery")
       ELSE /\ outcome' = Outcome("string", JoinTokens(query))
            /\ query' = <<>>
            /\ UNCHANGED currentField

build ==
    /\ Called("build")
    /\ IF Len(query) = 0
       THEN Throw("EmptyQuery")
       ELSE /\ outcome' = Outcome("string", JoinTokens(query))
            /\ UNCHANGED <<query, currentField>>

(***************************************************************************)
(* The builder under every call, with at most MaxTokens tokens.            *)
(***************************************************************************)
Fits(limit) == Len(query') <= limit

Next ==
    \/ \E name \in FieldNames : field(name)
    \/ orderDescending /\ Fits(MaxTokens)
    \/ orderAscending /\ Fits(MaxTokens)
    \/ \E x \in Operands : startsWith(x) /\ Fits(MaxTokens)
    \/ \E x \in Operands : endsWith(x) /\ Fits(MaxTokens)
    \/ \E x \in Operands : contains(x) /\ Fits(MaxTokens)
    \/ \E x \in Operands : doesNotContain(x) /\ Fits(MaxTokens)
    \/ isEmpty /\ Fits(MaxTokens)
    \/ isNotEmpty /\ Fits(MaxTokens)
    \/ \E x \in Operands : equals(x) /\ Fits(MaxTokens)
    \/ \E x \in Operands : notEquals(x) /\ Fits(MaxTokens)
    \/ \E x \in Operands : greaterThan(x) /\ Fits(MaxTokens)
    \/ \E x \in Operands : greaterThanOrIs(x) /\ Fits(MaxTokens)
    \/ \E x \in Operands : lessThan(x) /\ Fits(MaxTokens)
    \/ \E x \in Operands : lessThanOrIs(x) /\ Fits(MaxTokens)
    \/ \E x, y \in RangeOperands : between(x, y) /\ Fits(MaxTokens)
    \/ isAnything /\ Fits(MaxTokens)
    \/ \E x \in Operands : isOneOf(x) /\ Fits(MaxTokens)
    \/ isEmptyString /\ Fits(MaxTokens)
    \/ and /\ Fits(MaxTokens)
    \/ or /\ Fits(MaxTokens)
    \/ NQ /\ Fits(MaxTokens)
    \/ build

Spec == Init /\ [][Next]_vars

(***************************************************************************)
(* The builder under the calls of a chain of equalities: longer chains,    *)
(* fewer inputs.                                                           *)
(***************************************************************************)
InitChain == InitIn({0})

NextChain ==
    \/ \E name \in ChainFields : field(name)
    \/ orderDescending /\ Fits(MaxChain)
    \/ orderAscending /\ Fits(MaxChain)
    \/ \E x \in ChainOperands : equals(x) /\ Fits(MaxChain)
    \/ \E x \in ChainOperands : notEquals(x) /\ Fits(MaxChain)
    \/ and /\ Fits(MaxChain)
    \/ or /\ Fits(MaxChain)
    \/ NQ /\ Fits(MaxChain)
    \/ build

SpecChain == InitChain /\ [][NextChain]_vars

(***************************************************************************)
(* The vocabulary of the properties.                                       *)
(***************************************************************************)
ConditionMethods ==
    { "startsWith", "endsWith", "contains", "doesNotContain", "isEmpty",
      "isNotEmpty", "isAnything", "isEmptyString", "equals", "notEquals",
      "isOneOf", "greaterThan", "greaterThanOrIs", "lessThan", "lessThanOrIs",
      "between" }

StringMethods == {"startsWith", "endsWith", "contains", "doesNotContain"}

NoOperandMethods == {"isEmpty", "isNotEmpty", "isAnything", "isEmptyString"}

ComparisonMethods == {"greaterThan", "greaterThanOrIs", "lessThan", "lessThanOrIs"}

Errors == {"MissingField", "TypeMismatch", "EmptyQuery"}

\* the tokens one after the other, from the first to the n-th
RECURSIVE ConcatUpTo(_, _)
ConcatUpTo(tokens, n) ==
    IF n = 0 THEN "" ELSE ConcatUpTo(tokens, n - 1) \o tokens[n]

\* the call appended exactly this token and returned the builder
Appended(token) ==
    /\ query' = Append(query, token)
    /\ outcome'.kind = "self"

\* the call appended one token, whichever, and returned the builder
AppendedOne ==
    /\ Len(query') = Len(query) + 1
    /\ SubSeq(query', 1, Len(query)) = query
    /\ outcome'.kind = "self"

\* the call failed with this error and appended nothing
Failed(kind) ==
    /\ outcome'.kind = kind
    /\ query' = query

\* the text of a string or number operand
Scalar(x) == IF x.t = "string" THEN x.s ELSE NumberToString(x.n)

\* the instant of a date or moment, in UTC, in the service's format
UTCfmt(x) == FormatWallClock(x.n)

\* the call is one of the four comparisons, of x, and op is its operator
Comparison(x, op) ==
    \/ greaterThan(x) /\ op = ">"
    \/ greaterThanOrIs(x) /\ op = ">="
    \/ lessThan(x) /\ op = "<"
    \/ lessThanOrIs(x) /\ op = "<="

ComparisonOps == {">", ">=", "<", "<="}

\* a pair between() takes for a range
MatchingPair(x, y) ==
    \/ x.t = "number" /\ y.t = "number"
    \/ x.t = "string" /\ y.t = "string"
    \/ x.t \in {"date", "moment"} /\ y.t \in {"date", "moment"}

\* the operands of the types a one-operand condition method takes
AllowedOperands(method) ==
    { x \in Operands :
        CASE method \in StringMethods -> x.t = "string"
          [] method \in {"equals", "notEquals"} -> x.t \in {"string", "number", "array"}
          [] method = "isOneOf" -> x.t = "array"
          [] method \in ComparisonMethods -> x.t \in {"number", "string", "date", "moment"}
          [] OTHER -> FALSE }

\* the pairs of operands between() takes for a range
MatchingPairs == {p \in RangeOperands \X RangeOperands : MatchingPair(p[1], p[2])}

\* the call is this one-operand condition method, of x
ConditionCall(method, x) ==
    CASE method = "startsWith" -> startsWith(x)
      [] method = "endsWith" -> endsWith(x)
      [] method = "contains" -> contains(x)
      [] method = "doesNotContain" -> doesNotContain(x)
      [] method = "equals" -> equals(x)
      [] method = "notEquals" -> notEquals(x)
      [] method = "isOneOf" -> isOneOf(x)
      [] method = "greaterThan" -> greaterThan(x)
      [] method = "greaterThanOrIs" -> greaterThanOrIs(x)
      [] method = "lessThan" -> lessThan(x)
      [] method = "lessThanOrIs" -> lessThanOrIs(x)
      [] OTHER -> FALSE

(***************************************************************************)
(* C1: build() returns the appended tokens one after the other, in call     *)
(* order, with nothing between them; a condition token is the field current *)
(* at the call, the operator and the operand; an ordering token is the      *)
(* marker and the field current at the call.                               *)
(***************************************************************************)
BuildConcatenates ==
    [][ /\ (lastCall' = "build" /\ query # <<>>) =>
              /\ outcome' = Outcome("string", ConcatUpTo(query, Len(query)))
              /\ Len(outcome'.value) =
                   Len(ConcatUpTo(query, Len(query) - 1)) + Len(query[Len(query)])
        /\ \A x \in ChainOperands :
              /\ (currentField # "" /\ equals(x)) =>
                     Appended(currentField \o "=" \o Scalar(x))
              /\ (currentField # "" /\ notEquals(x)) =>
                     Appended(currentField \o "!=" \o Scalar(x))
        /\ and => Appended("^")
        /\ or => Appended("^OR")
        /\ NQ => Appended("^NQ")
        /\ orderAscending => Appended("ORDERBY" \o currentField)
        /\ orderDescending => Appended("ORDERBYDESC" \o currentField)
      ]_vars

ChainBuilt ==
    /\ query = <<"priority=1", "^", "state!=6">>
    /\ lastCall = "build"
    /\ outcome = Outcome("string", "priority=1^state!=6")

(***************************************************************************)
(* C2, as claimed: on a builder on which field() was never called, every    *)
(* condition method fails with MissingField, whatever its operand.         *)
(***************************************************************************)
UnfieldedAlwaysMissingField ==
    (~fieldCalled /\ lastCall \in ConditionMethods) => outcome.kind = "MissingField"

(***************************************************************************)
(* C2, amended: on a builder on which field() was never called, every       *)
(* condition method fails and appends nothing; the error is MissingField    *)
(* when the operand passes the method's own dispatch (any operand of        *)
(* startsWith, endsWith, contains, doesNotContain; a string, number or      *)
(* array of equals and notEquals; an array of isOneOf; a number, string,    *)
(* date or moment of the comparisons; a matching pair of between) and       *)
(* TypeMismatch when it does not.                                          *)
(***************************************************************************)
UnfieldedFails ==
    [][ ~fieldCalled =>
          /\ lastCall' \in ConditionMethods => query' = query
          /\ lastCall' \in StringMethods =>
                \A x \in Operands :
                   (startsWith(x) \/ endsWith(x) \/ contains(x) \/ doesNotContain(x))
                      => Failed("MissingField")
          /\ lastCall' \in {"equals", "notEquals"} =>
                \A x \in Operands :
                   (equals(x) \/ notEquals(x)) =>
                      Failed(IF x.t \in {"string", "number", "array"}
                             THEN "MissingField" ELSE "TypeMismatch")
          /\ lastCall' = "isOneOf" =>
                \A x \in Operands :
                   isOneOf(x) =>
                      Failed(IF x.t = "array" THEN "MissingField" ELSE "TypeMismatch")
          /\ lastCall' \in ComparisonMethods =>
                \A x \in Operands :
                   (\E op \in ComparisonOps : Comparison(x, op)) =>
                      Failed(IF x.t \in {"number", "string", "date", "moment"}
                             THEN "MissingField" ELSE "TypeMismatch")
          /\ lastCall' = "between" =>
                \A x, y \in RangeOperands :
                   between(x, y) =>
                      Failed(IF MatchingPair(x, y)
                             THEN "MissingField" ELSE "TypeMismatch")
          /\ lastCall' \in NoOperandMethods =>
                ((isEmpty \/ isNotEmpty \/ isAnything \/ isEmptyString)
                    => Failed("MissingField"))
      ]_vars

UnfieldedStartsWith ==
    /\ ~fieldCalled
    /\ lastCall = "startsWith"
    /\ outcome.kind = "MissingField"
    /\ query = <<>>

(***************************************************************************)
(* C3: a call that fails, with whichever error, leaves the tokens and the   *)
(* current field as they were.                                             *)
(***************************************************************************)
FailureChangesNothing ==
    [][outcome'.kind \in Errors => (query' = query /\ currentField' = currentField)]_vars

FailedAfterToken ==
    /\ Len(query) = 1
    /\ currentField # ""
    /\ lastCall = "between"
    /\ outcome.kind = "TypeMismatch"

(***************************************************************************)
(* C4: build() fails, and with EmptyQuery, exactly when no token has been   *)
(* appended, whatever field() calls and failed calls came before.          *)
(***************************************************************************)
EmptyQueryIffNoToken ==
    lastCall = "build" =>
        /\ outcome.kind \in {"EmptyQuery", "string"}
        /\ outcome.kind = "EmptyQuery" <=> query = <<>>

EmptyBuildAfterField ==
    /\ fieldCalled
    /\ currentField # ""
    /\ lastCall = "build"
    /\ outcome.kind = "EmptyQuery"

(***************************************************************************)
(* C5: with a non-empty current field, equals and notEquals of a string or  *)
(* number append field=x and field!=x, of an array append fieldINv1,v2,...  *)
(* and fieldNOT INv1,v2,..., and of anything else fail with TypeMismatch    *)
(* and append nothing.                                                     *)
(***************************************************************************)
EqualsDispatch ==
    [][ (currentField # "" /\ lastCall' \in {"equals", "notEquals"}) =>
          \A x \in Operands :
             /\ equals(x) =>
                  CASE x.t \in {"string", "number"} ->
                           Appended(currentField \o "=" \o Scalar(x))
                    [] x.t = "array" ->
                           /\ Appended(currentField \o "IN" \o Join(x.a))
                           /\ x.a = <<1, 2, 3>> =>
                                 query'[Len(query')] = currentField \o "IN1,2,3"
                    [] OTHER -> Failed("TypeMismatch")
             /\ notEquals(x) =>
                  CASE x.t \in {"string", "number"} ->
                           Appended(currentField \o "!=" \o Scalar(x))
                    [] x.t = "array" ->
                           /\ Appended(currentField \o "NOT IN" \o Join(x.a))
                           /\ x.a = <<1, 2, 3>> =>
                                 query'[Len(query')] = currentField \o "NOT IN1,2,3"
                    [] OTHER -> Failed("TypeMismatch")
      ]_vars

NotEqualsArray ==
    /\ query = <<"stateNOT IN1,2,3">>
    /\ lastCall = "notEquals"
    /\ outcome.kind = "self"

(***************************************************************************)
(* C6: with a non-empty current field, between(a, b) appends                *)
(* fieldBETWEENa@b of two numbers or two strings, appends                   *)
(* fieldBETWEEN<UTCfmt(a)>@<UTCfmt(b)> of two dates or moments, and of any  *)
(* other pair fails with TypeMismatch and appends nothing.                 *)
(***************************************************************************)
BetweenDispatch ==
    [][ (currentField # "" /\ lastCall' = "between") =>
          \A x, y \in RangeOperands :
             between(x, y) =>
                CASE (x.t = "number" /\ y.t = "number")
                       \/ (x.t = "string" /\ y.t = "string") ->
                         Appended(currentField \o "BETWEEN" \o Scalar(x) \o "@" \o Scalar(y))
                  [] x.t \in {"date", "moment"} /\ y.t \in {"date", "moment"} ->
                         Appended(currentField \o "BETWEEN" \o UTCfmt(x) \o "@" \o UTCfmt(y))
                  [] OTHER -> Failed("TypeMismatch")
      ]_vars

(***************************************************************************)
(* C7: for the comparisons and between, a Date and a moment of the same     *)
(* instant, in whichever offset, give the same operand: the token of a      *)
(* moment is the token the Date of its instant gives.                      *)
(***************************************************************************)
MomentAsDate ==
    [][ (currentField # "" /\ lastCall' \in ComparisonMethods \cup {"between"}) =>
          \A x \in Operands :
             IsMoment(x) =>
                /\ \A op \in ComparisonOps :
                      Comparison(x, op) =>
                         Appended(currentField \o op
                                  \o _getDateTimeInUTC(DateVal(x.n), tz))
                /\ between(x, x) =>
                      Appended(currentField \o "BETWEEN"
                               \o _getDateTimeInUTC(DateVal(x.n), tz) \o "@"
                               \o _getDateTimeInUTC(DateVal(x.n), tz))
      ]_vars

(***************************************************************************)
(* C8: build() changes neither the tokens nor the current field, a second   *)
(* build() right after a first returns the same string, and whatever was    *)
(* built earlier, build() returns the tokens the builder holds now.        *)
(***************************************************************************)
BuildReadsOnly ==
    [][ lastCall' = "build" =>
          /\ query' = query
          /\ currentField' = currentField
          /\ (lastCall = "build" /\ outcome.kind = "string") => outcome' = outcome
          /\ outcome'.kind = "string" =>
                outcome'.value = ConcatUpTo(query', Len(query'))
      ]_vars

BuiltFullChain ==
    /\ Len(query) = MaxChain
    /\ currentField # ""
    /\ lastCall = "build"
    /\ outcome.kind = "string"

(***************************************************************************)
(* C9: the tokens are append-only: none at construction, and every call     *)
(* leaves the tokens it found in place and adds at most one; field() and    *)
(* build() add none.                                                       *)
(***************************************************************************)
AppendOnly ==
    /\ (lastCall = "constructor" => query = <<>>)
    /\ [][ /\ Len(query') \in {Len(query), Len(query) + 1}
           /\ SubSeq(query', 1, Len(query)) = query
           /\ lastCall' \in {"field", "build"} => query' = query
         ]_vars

FieldAfterToken ==
    /\ Len(query) >= 2
    /\ query[1] = "state=1"
    /\ lastCall = "field"
    /\ currentField = "priority"

(***************************************************************************)
(* C10, as claimed: a condition method fails with MissingField only when    *)
(* no field() call came before it.                                         *)
(***************************************************************************)
MissingFieldOnlyUnfielded ==
    outcome.kind = "MissingField" => ~fieldCalled

(***************************************************************************)
(* C10, amended: field(name) always succeeds, for the empty name too; a     *)
(* condition method fails with MissingField only while the current field    *)
(* is empty (no field() call yet, or the latest one gave the empty name),   *)
(* and then every condition call that is not a TypeMismatch is a            *)
(* MissingField; while the current field is not empty, a condition method   *)
(* given an operand of an allowed type appends its token.                  *)
(***************************************************************************)
MissingFieldIffEmptyField ==
    [][ /\ lastCall' = "field" => outcome'.kind = "self"
        /\ outcome'.kind = "MissingField" =>
              (currentField = "" /\ lastCall' \in ConditionMethods)
        /\ (currentField = "" /\ lastCall' \in ConditionMethods) =>
              (Failed("MissingField") \/ Failed("TypeMismatch"))
        /\ (currentField # "" /\ lastCall' \in ConditionMethods) =>
              \/ AppendedOne
              \/ /\ Failed("TypeMismatch")
                 /\ \A x \in AllowedOperands(lastCall') : ~ConditionCall(lastCall', x)
                 /\ lastCall' = "between" =>
                       \A p \in MatchingPairs : ~between(p[1], p[2])
      ]_vars

EmptyFieldNamed ==
    /\ fieldCalled
    /\ currentField = ""
    /\ lastCall = "equals"
    /\ outcome.kind = "MissingField"

====
